---- MODULE Spec2Model ----
(***************************************************************************)
(* A model of conda/resolve.py: VersionOrder, MatchSpec, Package and the   *)
(* Resolve class (dependency closure, clause generation, solve).           *)
(*                                                                         *)
(* Python strings are sequences of one-character strings; their order is   *)
(* the code-point order, given by the position of a character in Alphabet. *)
(***************************************************************************)
EXTENDS Integers, Sequences, FiniteSets, TLC

VARIABLES
    index,       \* Resolve.index: filename -> metadata
    requests,    \* the requirement lists and feature sets the caller passes
    msd_cache,   \* Resolve.msd_cache: filename -> list of dependency MatchSpecs
    last,        \* the last call made on the Resolve instance and its outcome
    ncalls,      \* number of calls made on the instance so far
    verA, verB,  \* two version strings handed to VersionOrder
    vcmp,        \* the outcome of constructing and comparing verA and verB
    run          \* a get_dists call in progress: its locals and call stack

vars == <<index, requests, msd_cache, last, ncalls, verA, verB, vcmp, run>>

(***************************************************************************)
(* Characters and strings                                                  *)
(***************************************************************************)

\* The characters used, in increasing code-point order.
Alphabet ==
    << " ", "!", "*", ",", "-", ".",
       "0", "1", "2", "3", "4", "5", "6", "7", "8", "9",
       "<", "=", ">",
       "A", "D", "E", "V",
       "_",
       "a", "b", "c", "d", "e", "f", "g", "h", "i", "j", "k", "l", "m",
       "n", "o", "p", "q", "r", "s", "t", "u", "v", "w", "x", "y", "z",
       "|" >>

OrdTable ==
    [c \in {Alphabet[i] : i \in 1..Len(Alphabet)} |->
        CHOOSE i \in 1..Len(Alphabet) : Alphabet[i] = c]

\* ord(c)
Ord(c) == OrdTable[c]

Digits == {"0", "1", "2", "3", "4", "5", "6", "7", "8", "9"}

DigitVal(c) == Ord(c) - Ord("0")

\* str.isdigit(): non-empty and all characters are digits
isdigit(s) == s # <<>> /\ \A i \in 1..Len(s) : s[i] \in Digits

LowerChar(c) ==
    CASE c = "A" -> "a"
      [] c = "D" -> "d"
      [] c = "E" -> "e"
      [] c = "V" -> "v"
      [] OTHER -> c

\* str.lower()
lower(s) == [i \in 1..Len(s) |-> LowerChar(s[i])]

\* str.strip(): whitespace removed at both ends
RECURSIVE lstrip(_)
lstrip(s) == IF s # <<>> /\ s[1] = " " THEN lstrip(Tail(s)) ELSE s

RECURSIVE rstrip(_)
rstrip(s) ==
    IF s # <<>> /\ s[Len(s)] = " " THEN rstrip(SubSeq(s, 1, Len(s) - 1)) ELSE s

strip(s) == rstrip(lstrip(s))

\* Python's < on str: lexicographic by code point, a proper prefix is smaller
StrLess(s, t) ==
    \E k \in 1..Len(t) :
        /\ \A j \in 1..(k - 1) : j <= Len(s) /\ s[j] = t[j]
        /\ (k > Len(s) \/ Ord(s[k]) < Ord(t[k]))

\* str.split(sep) for a one-character separator
RECURSIVE split(_, _)
split(s, sep) ==
    IF \A i \in 1..Len(s) : s[i] # sep THEN <<s>>
    ELSE LET i == CHOOSE k \in 1..Len(s) :
                     s[k] = sep /\ \A j \in 1..(k - 1) : s[j] # sep
         IN <<SubSeq(s, 1, i - 1)>> \o split(SubSeq(s, i + 1, Len(s)), sep)

\* int(s) for a run of digits
RECURSIVE int(_)
int(s) ==
    IF s = <<>> THEN 0
    ELSE 10 * int(SubSeq(s, 1, Len(s) - 1)) + DigitVal(s[Len(s)])

(***************************************************************************)
(* VersionOrder                                                            *)
(***************************************************************************)

\* version_check_re.match(version): re.match anchors at the start only, so
\* the test is that the string begins with one or more allowed characters.
VersionChars ==
    {"*", ".", "!", "_"} \cup Digits
        \cup {Alphabet[i] : i \in Ord("A")..Ord("V")}
        \cup {Alphabet[i] : i \in Ord("a")..Ord("z")}

version_check_re(version) == version # <<>> /\ version[1] \in VersionChars

\* version_split_re.findall(s): the maximal runs of numerals and non-numerals
RECURSIVE version_split_re(_)
version_split_re(s) ==
    IF s = <<>> THEN <<>>
    ELSE LET d == s[1] \in Digits
             n == CHOOSE k \in 1..Len(s) :
                     /\ \A j \in 1..k : (s[j] \in Digits) = d
                     /\ (k < Len(s) => (s[k + 1] \in Digits) # d)
         IN <<SubSeq(s, 1, n)>> \o version_split_re(SubSeq(s, n + 1, Len(s)))

\* The subcomponents of a parsed version: int, str, or float('inf')
IntTok(n) == [k |-> "int", n |-> n, s |-> <<>>]
StrTok(s) == [k |-> "str", n |-> 0, s |-> s]
InfTok == [k |-> "inf", n |-> 0, s |-> <<>>]

FillTok == IntTok(-1)

\* lines 145-154: numerals to int, 'post' to infinity, 'dev' to 'DEV'
ConvertTok(c) ==
    IF isdigit(c) THEN IntTok(int(c))
    ELSE IF c = <<"p", "o", "s", "t">> THEN InfTok
    ELSE IF c = <<"d", "e", "v">> THEN StrTok(<<"D", "E", "V">>)
    ELSE StrTok(c)

\* lines 141-159 for one component; <<>> stands for "empty version component"
ParseComponent(comp) ==
    LET c == version_split_re(comp)
        conv == [j \in 1..Len(c) |-> ConvertTok(c[j])]
    IN IF comp[1] \notin Digits THEN <<FillTok>> \o conv ELSE conv

\* VersionOrder.__init__: [ok, err, version]
VersionOrder(vstr) ==
    LET Err(e) == [ok |-> FALSE, err |-> e, version |-> <<>>]
    IN
    IF vstr = <<>> THEN Err("empty")
    ELSE IF ~version_check_re(vstr) THEN Err("invalid character")
    ELSE
      LET v == split(lower(rstrip(strip(vstr))), "!")
          comps == IF Len(v) = 1 THEN <<<<"0">>>> \o split(v[1], ".")
                   ELSE <<v[1]>> \o split(v[2], ".")
      IN IF Len(v) = 2 /\ ~isdigit(v[1]) THEN Err("epoch")
         ELSE IF Len(v) > 2 THEN Err("duplicated epoch separator")
         ELSE IF \E k \in 1..Len(comps) : comps[k] = <<>>
              THEN Err("empty version component")
         ELSE [ok |-> TRUE, err |-> "",
               version |-> [k \in 1..Len(comps) |-> ParseComponent(comps[k])]]

Max(a, b) == IF a >= b THEN a ELSE b

\* zip_longest(..., fillvalue=...): the element at position i, padded
PadComp(v, i) == IF i <= Len(v) THEN v[i] ELSE <<FillTok>>
PadTok(c, j) == IF j <= Len(c) THEN c[j] ELSE FillTok

\* The slots (component, subcomponent) the two nested zip_longest loops
\* visit, in order.
Slots(v, w) ==
    UNION {{<<i, j>> : j \in 1..Max(Len(PadComp(v, i)), Len(PadComp(w, i)))} :
              i \in 1..Max(Len(v), Len(w))}

SlotBefore(p, q) == p[1] < q[1] \/ (p[1] = q[1] /\ p[2] < q[2])

\* Python's != between two subcomponents
TokNe(c1, c2) == c1 # c2

\* isinstance(c, string_types)
IsStr(c) == c.k = "str"

\* Python's < between two subcomponents of the same kind (both str, or
\* both numbers, where float('inf') is a number)
TokLt(c1, c2) ==
    IF IsStr(c1) THEN StrLess(c1.s, c2.s)
    ELSE IF c1.k = "inf" THEN FALSE
    ELSE IF c2.k = "inf" THEN TRUE
    ELSE c1.n < c2.n

\* VersionOrder.__eq__
VersionOrder_eq(v, w) ==
    \A p \in Slots(v, w) :
        ~TokNe(PadTok(PadComp(v, p[1]), p[2]), PadTok(PadComp(w, p[1]), p[2]))

\* A variant of LtStep in which a string and a number are each below the
\* other.
LtStep_MixedBothWays(c1, c2) ==
    IF IsStr(c1) # IsStr(c2) THEN "T"
    ELSE IF TokLt(c1, c2) THEN "T"
    ELSE IF TokLt(c2, c1) THEN "F"
    ELSE "next"

\* A variant of LtStep in which numbers are below strings.
LtStep_NumberBelowStr(c1, c2) ==
    IF IsStr(c1) /\ ~IsStr(c2) THEN "F"
    ELSE IF ~IsStr(c1) /\ IsStr(c2) THEN "T"
    ELSE IF TokLt(c1, c2) THEN "T"
    ELSE IF TokLt(c2, c1) THEN "F"
    ELSE "next"

\* What the body of the inner loop of __lt__ does with one slot:
\* "T" (return True), "F" (return False) or "next" (advance).
LtStep(c1, c2) ==
    IF IsStr(c1) /\ ~IsStr(c2) THEN "T"
    ELSE IF ~IsStr(c1) /\ IsStr(c2) THEN "F"
    ELSE IF TokLt(c1, c2) THEN "T"
    ELSE IF TokLt(c2, c1) THEN "F"
    ELSE "next"

\* VersionOrder.__lt__: the first slot that does not advance decides
VersionOrder_lt(v, w) ==
    LET step(p) == LtStep(PadTok(PadComp(v, p[1]), p[2]),
                          PadTok(PadComp(w, p[1]), p[2]))
    IN \E p \in Slots(v, w) :
          /\ step(p) = "T"
          /\ \A q \in Slots(v, w) : SlotBefore(q, p) => step(q) = "next"

\* VersionOrder.__gt__
VersionOrder_gt(v, w) == VersionOrder_lt(w, v)


\* The subcomponents of each component as __init__ converts them, before
\* the fillvalue is inserted (the list c of lines 142-154)
RawTokens(vstr) ==
    LET v == split(lower(rstrip(strip(vstr))), "!")
        comps == IF Len(v) = 1 THEN <<<<"0">>>> \o split(v[1], ".")
                 ELSE <<v[1]>> \o split(v[2], ".")
    IN [k \in 1..Len(comps) |->
          LET c == version_split_re(comps[k])
          IN [j \in 1..Len(c) |-> ConvertTok(c[j])]]

(***************************************************************************)
(* ver_eval, VersionSpecAtom, VersionSpec, MatchSpec                       *)
(***************************************************************************)

\* str.split(): split at runs of whitespace, no empty parts
RECURSIVE split_ws(_)
split_ws(s) ==
    LET t == lstrip(s)
    IN IF t = <<>> THEN <<>>
       ELSE IF \A i \in 1..Len(t) : t[i] # " " THEN <<t>>
       ELSE LET i == CHOOSE k \in 1..Len(t) :
                        t[k] = " " /\ \A j \in 1..(k - 1) : t[j] # " "
            IN <<SubSeq(t, 1, i - 1)>> \o split_ws(SubSeq(t, i + 1, Len(t)))

\* str.rsplit(sep, n): split at the last n separators
RECURSIVE rsplit(_, _, _)
rsplit(s, sep, n) ==
    IF n = 0 \/ \A i \in 1..Len(s) : s[i] # sep THEN <<s>>
    ELSE LET i == CHOOSE k \in 1..Len(s) :
                     s[k] = sep /\ \A j \in (k + 1)..Len(s) : s[j] # sep
         IN rsplit(SubSeq(s, 1, i - 1), sep, n - 1)
                \o <<SubSeq(s, i + 1, Len(s))>>

RelChars == {"=", "<", ">", "!"}

TwoCharOps == { <<"=", "=">>, <<"!", "=">>, <<"<", "=">>, <<">", "=">> }

\* version_relation_re.match(constraint): [ok, op, b]
version_relation_re(c) ==
    LET rest(n) == SubSeq(c, n + 1, Len(c))
        good(r) == r # <<>> /\ r[1] \notin RelChars
                            /\ \A i \in 1..Len(r) : r[i] # " "
        none == [ok |-> FALSE, op |-> <<>>, b |-> <<>>]
    IN IF Len(c) >= 2 /\ SubSeq(c, 1, 2) \in TwoCharOps
       THEN IF good(rest(2))
            THEN [ok |-> TRUE, op |-> SubSeq(c, 1, 2), b |-> rest(2)]
            ELSE none
       ELSE IF Len(c) >= 1 /\ c[1] \in {"<", ">"} /\ good(rest(1))
            THEN [ok |-> TRUE, op |-> <<c[1]>>, b |-> rest(1)]
            ELSE none

\* eval('na' + op + 'nb') of line 227, with the comparisons of lines
\* 161-200
EvalOp(op, lt, gt, eq) ==
    CASE op = <<"=", "=">> -> eq
      [] op = <<"!", "=">> -> ~eq
      [] op = <<"<", "=">> -> ~gt
      [] op = <<">", "=">> -> ~lt
      [] op = <<"<">> -> lt
      [] op = <<">">> -> gt

\* lines 225-227 for the VersionOrder results na and nb
EvalParsed(op, na, nb) ==
    IF ~na.ok \/ ~nb.ok THEN "E"
    ELSE IF EvalOp(op, VersionOrder_lt(na.version, nb.version),
                   VersionOrder_lt(nb.version, na.version),
                   VersionOrder_eq(na.version, nb.version))
    THEN "T" ELSE "F"

\* lines 221-227 for the match m of version_relation_re
EvalMatch(version, m) ==
    IF ~m.ok THEN "E"
    ELSE EvalParsed(m.op, VersionOrder(version), VersionOrder(m.b))

\* ver_eval(version, constraint): "T", "F", or "E" when it raises
ver_eval(version, constraint) ==
    EvalMatch(version, version_relation_re(constraint))

\* re.match('(rx)$', version) for rx = spec with '.' literal and '*' = '.*'
RECURSIVE GlobMatch(_, _)
GlobMatch(pat, s) ==
    IF pat = <<>> THEN s = <<>>
    ELSE IF pat[1] = "*"
         THEN \E k \in 0..Len(s) : GlobMatch(Tail(pat), SubSeq(s, k + 1, Len(s)))
         ELSE s # <<>> /\ s[1] = pat[1] /\ GlobMatch(Tail(pat), Tail(s))

\* VersionSpecAtom(spec).match(version)
VersionSpecAtom_match(spec, version) ==
    IF spec # <<>> /\ spec[1] \in RelChars
    THEN ver_eval(version, spec)
    ELSE IF GlobMatch(spec, version) THEN "T" ELSE "F"

\* all(...) / any(...) over a generator of "T"/"F"/"E": evaluation stops at
\* the first deciding element and raises if it meets "E" before that.
FirstOf(seq, x) ==
    IF \E i \in 1..Len(seq) : seq[i] \in {x, "E"}
    THEN LET i == CHOOSE k \in 1..Len(seq) :
                     seq[k] \in {x, "E"} /\ \A j \in 1..(k - 1) : seq[j] \notin {x, "E"}
         IN seq[i]
    ELSE "none"

\* The result of all(...) / any(...) when no element decided
NoneAs(r, default) == IF r = "none" THEN default ELSE r

\* A variant of AllAtoms that looks at the first constraint only.
AllAtoms_FirstOnly(atoms, version) == VersionSpecAtom_match(atoms[1], version)

\* VersionSpec.match for the constraints atoms (line 256)
AllAtoms(atoms, version) ==
    NoneAs(FirstOf([i \in 1..Len(atoms) |->
                       VersionSpecAtom_match(atoms[i], version)], "F"), "T")

\* VersionSpec(spec).match(version)
VersionSpec_match(spec, version) == AllAtoms(split(spec, ","), version)

\* MatchSpec(spec): [spec, strictness, name, vspecs, ver_build]; the
\* specs used have one to three parts.
MatchSpec(spec) ==
    LET parts == split_ws(spec)
    IN [spec |-> spec,
        strictness |-> Len(parts),
        name |-> parts[1],
        vspecs |-> IF Len(parts) = 2 THEN split(parts[2], "|") ELSE <<>>,
        ver_build |-> IF Len(parts) = 3 THEN <<parts[2], parts[3]>> ELSE <<>>]

Suffix == <<".", "t", "a", "r", ".", "b", "z", "2">>

\* MatchSpec.match(fn): "T", "F", or "E" when it raises
MatchSpec_match(ms, fn) ==
    LET p == rsplit(SubSeq(fn, 1, Len(fn) - Len(Suffix)), "-", 2)
        name == p[1]
        version == p[2]
        build == p[3]
    IN IF name # ms.name THEN "F"
       ELSE IF ms.strictness = 1 THEN "T"
       ELSE IF ms.strictness = 2
            THEN NoneAs(FirstOf([i \in 1..Len(ms.vspecs) |->
                                    VersionSpec_match(ms.vspecs[i], version)], "T"),
                        "F")
       ELSE IF <<version, build>> = ms.ver_build THEN "T" ELSE "F"

\* MatchSpec.to_filename(): <<>> stands for None
to_filename(ms) ==
    IF ms.strictness = 3
    THEN ms.name \o <<"-">> \o ms.ver_build[1] \o <<"-">> \o ms.ver_build[2] \o Suffix
    ELSE <<>>

(***************************************************************************)
(* Package                                                                 *)
(***************************************************************************)

\* The filename of an artifact: name-version-build.tar.bz2
Filename(name, version, build) ==
    name \o <<"-">> \o version \o <<"-">> \o build \o Suffix

\* Package.norm_version
norm_version(fn) == VersionOrder(index[fn].version).version

\* (name, norm_version, build_number) of two packages are equal, with ==
\* of VersionOrder (lines 412-413 and 539-541)
SameVersionBuild(fn1, fn2) ==
    /\ index[fn1].name = index[fn2].name
    /\ VersionOrder_eq(norm_version(fn1), norm_version(fn2))
    /\ index[fn1].build_number = index[fn2].build_number

\* A variant of PackageTupleLess that compares the versions only.
PackageTupleLess_VersionOnly(self, other, v1, v2) == VersionOrder_lt(v1, v2)

\* The comparison of Package.__lt__ for the norm_versions v1 and v2: the
\* tuples (norm_version, build_number, other.build) and
\* (other.norm_version, other.build_number, self.build) are compared at the
\* first position where they are not equal.
PackageTupleLess(self, other, v1, v2) ==
    IF ~VersionOrder_eq(v1, v2) THEN VersionOrder_lt(v1, v2)
    ELSE IF index[self].build_number # index[other].build_number
    THEN index[self].build_number < index[other].build_number
    ELSE StrLess(index[other].build, index[self].build)

\* Package.__lt__ for two packages of one name
Package_lt(self, other) ==
    PackageTupleLess(self, other, norm_version(self), norm_version(other))

\* Package.__eq__
Package_eq(self, other) ==
    /\ index[self].name = index[other].name
    /\ VersionOrder_eq(norm_version(self), norm_version(other))
    /\ index[self].build_number = index[other].build_number
    /\ index[self].build = index[other].build

\* max(pkgs): the first element that no later element is greater than
RECURSIVE MaxFrom(_, _, _)
MaxFrom(pkgs, i, m) ==
    IF i > Len(pkgs) THEN m
    ELSE MaxFrom(pkgs, i + 1, IF Package_lt(m, pkgs[i]) THEN pkgs[i] ELSE m)

max(pkgs) == MaxFrom(pkgs, 2, pkgs[1])

(***************************************************************************)
(* Resolve                                                                 *)
(***************************************************************************)

\* sorted(S) for a set of strings
RECURSIVE sorted(_)
sorted(S) ==
    IF S = {} THEN <<>>
    ELSE LET m == CHOOSE x \in S : \A y \in S \ {x} : StrLess(x, y)
         IN <<m>> \o sorted(S \ {m})

Range(seq) == {seq[i] : i \in 1..Len(seq)}

\* Resolve.groups[name]
groups(name) == {fn \in DOMAIN index : index[fn].name = name}

\* Resolve.find_matches(ms), as a list
find_matches(ms) ==
    SelectSeq(sorted(groups(ms.name)), LAMBDA fn : MatchSpec_match(ms, fn) = "T")

\* Resolve.ms_depends(fn) on a given msd_cache: the cached list, else the
\* 'depends' of the index (which the call then stores in the cache)
ms_depends(cache, fn) ==
    IF fn \in DOMAIN cache THEN cache[fn] ELSE index[fn].depends

\* msd_cache after ms_depends was called for the filenames in touched
Filled(cache, touched) ==
    [fn \in DOMAIN cache \cup touched |-> ms_depends(cache, fn)]

\* Resolve.features(fn), Resolve.track_features(fn)
features_of(fn) == index[fn].features
track_features(fn) == index[fn].track_features

\* lines 407-418: the packages equal to maxpkg in name, norm_version and
\* build_number
MaxOnly(pkgs, maxpkg) ==
    SelectSeq(pkgs, LAMBDA pkg : SameVersionBuild(pkg, maxpkg))

\* lines 405-420 for pkgs = the packages of find_matches(ms)
PkgsFound(pkgs, max_only) ==
    IF pkgs = <<>> THEN [ok |-> FALSE, pkgs |-> <<>>]
    ELSE IF max_only THEN [ok |-> TRUE, pkgs |-> MaxOnly(pkgs, max(pkgs))]
    ELSE [ok |-> TRUE, pkgs |-> pkgs]

\* Resolve.get_pkgs(ms, max_only): [ok, pkgs]; ~ok is NoPackagesFound
get_pkgs(ms, max_only) == PkgsFound(find_matches(ms), max_only)

\* Resolve.all_deps.add_dependents.  The state threaded through the loops
\* is st = [res, touched]: the dict res (its keys) and the filenames whose
\* dependencies were looked up.  The result is [ok, st]; ~ok is a raised
\* NoPackagesFound, with res as the exception left it.
RECURSIVE add_dependents(_, _, _, _)
RECURSIVE DependsLoop(_, _, _, _, _)
RECURSIVE CandidateLoop(_, _, _, _, _, _, _)

\* lines 444-451: r is what add_dependents(pkg2.fn) returned or raised
CandidateExpanded(ms, pkgs, j, found, max_only, cache, r) ==
    IF r.ok
    THEN CandidateLoop(ms, pkgs, j + 1, TRUE, max_only, r.st, cache)
    ELSE CandidateLoop(ms, pkgs, j + 1, found, max_only,
                       [r.st EXCEPT !.res = @ \ {pkgs[j]}], cache)

\* lines 440-443: st1 is the state after res[pkg2.fn] = pkg2
CandidateAdded(ms, pkgs, j, found, max_only, cache, st1) ==
    IF ms.strictness >= 3
    THEN CandidateLoop(ms, pkgs, j + 1, TRUE, max_only, st1, cache)
    ELSE CandidateExpanded(ms, pkgs, j, found, max_only, cache,
                           add_dependents(pkgs[j], max_only, st1, cache))

\* lines 436-451: the loop over get_pkgs(ms) from position j on
CandidateLoop(ms, pkgs, j, found, max_only, st, cache) ==
    IF j > Len(pkgs) THEN [found |-> found, st |-> st]
    ELSE IF pkgs[j] \in st.res
    THEN CandidateLoop(ms, pkgs, j + 1, TRUE, max_only, st, cache)
    ELSE CandidateAdded(ms, pkgs, j, found, max_only, cache,
                        [st EXCEPT !.res = @ \cup {pkgs[j]}])

\* lines 453-455: r is the outcome of the loop over the candidates
DependsTried(deps, i, max_only, cache, r) ==
    IF ~r.found THEN [ok |-> FALSE, st |-> r.st]
    ELSE DependsLoop(deps, i + 1, max_only, r.st, cache)

\* lines 434-455: g is get_pkgs(ms)
DependsCandidates(deps, i, max_only, st, cache, ms, g) ==
    IF ~g.ok THEN [ok |-> FALSE, st |-> st]
    ELSE DependsTried(deps, i, max_only, cache,
                      CandidateLoop(ms, g.pkgs, 1, FALSE, max_only, st, cache))

\* lines 434-455 for one dependency ms
DependsOn(deps, i, max_only, st, cache, ms) ==
    DependsCandidates(deps, i, max_only, st, cache, ms, get_pkgs(ms, max_only))

\* lines 433-455: the loop over ms_depends(fn1) from position i on
DependsLoop(deps, i, max_only, st, cache) ==
    IF i > Len(deps) THEN [ok |-> TRUE, st |-> st]
    ELSE DependsOn(deps, i, max_only, st, cache, MatchSpec(deps[i]))

add_dependents(fn1, max_only, st, cache) ==
    DependsLoop(ms_depends(cache, fn1), 1, max_only,
                [st EXCEPT !.touched = @ \cup {fn1}], cache)

\* The result of all_deps for the outcome r of add_dependents
AllDepsResult(r) == [ok |-> r.ok, res |-> r.st.res, touched |-> r.st.touched]

\* Resolve.all_deps(root_fn, max_only): [ok, res, touched]
all_deps(root_fn, max_only, touched, cache) ==
    AllDepsResult(add_dependents(root_fn, max_only,
                                 [res |-> {}, touched |-> touched], cache))

\* Resolve.get_dists(specs, max_only): [ok, dists, touched, failed]; ~ok is
\* a raised NoPackagesFound, and failed holds the candidates for which
\* all_deps raised NoPackagesFound (the except branch of lines 564-568).
\* The state threaded through the loops is st = [dists, touched, failed].
RECURSIVE DistsSpecLoop(_, _, _, _, _)
RECURSIVE DistsCandLoop(_, _, _, _, _, _)

\* lines 561-570: r is what all_deps(pkg.fn) returned or raised
DistsExpanded(pkgs, j, found, max_only, st, cache, r) ==
    IF r.ok
    THEN DistsCandLoop(pkgs, j + 1, TRUE, max_only,
                       [st EXCEPT !.dists = @ \cup r.res \cup {pkgs[j]},
                                  !.touched = r.touched], cache)
    ELSE DistsCandLoop(pkgs, j + 1, found, max_only,
                       [st EXCEPT !.touched = r.touched,
                                  !.failed = @ \cup {pkgs[j]}], cache)

\* lines 557-570: the loop over the candidates of one spec
DistsCandLoop(pkgs, j, found, max_only, st, cache) ==
    IF j > Len(pkgs) THEN [found |-> found, st |-> st]
    ELSE IF pkgs[j] \in st.dists
    THEN DistsCandLoop(pkgs, j + 1, TRUE, max_only, st, cache)
    ELSE DistsExpanded(pkgs, j, found, max_only, st, cache,
                       all_deps(pkgs[j], max_only, st.touched, cache))

\* What get_dists returns (ok) or leaves when it raises (~ok)
DistsResult(ok, st) ==
    [ok |-> ok, dists |-> st.dists, touched |-> st.touched, failed |-> st.failed]

\* lines 571-572: r is the outcome of the loop over the candidates
DistsTried(specs, i, max_only, cache, r) ==
    IF ~r.found THEN DistsResult(FALSE, r.st)
    ELSE DistsSpecLoop(specs, i + 1, max_only, r.st, cache)

\* lines 555-572: g is get_pkgs(MatchSpec(spec))
DistsCandidates(specs, i, max_only, st, cache, g) ==
    IF ~g.ok THEN DistsResult(FALSE, st)
    ELSE DistsTried(specs, i, max_only, cache,
                    DistsCandLoop(g.pkgs, 1, FALSE, max_only, st, cache))

\* lines 554-572: the loop over specs
DistsSpecLoop(specs, i, max_only, st, cache) ==
    IF i > Len(specs) THEN DistsResult(TRUE, st)
    ELSE DistsCandidates(specs, i, max_only, st, cache,
                         get_pkgs(MatchSpec(specs[i]), max_only))

get_dists(specs, max_only, cache) ==
    DistsSpecLoop(specs, 1, max_only,
                  [dists |-> {}, touched |-> {}, failed |-> {}], cache)

\* A clause over the variables v[fn], fn in dists: the filenames whose
\* variable occurs positively and those whose variable occurs negated.
Clause(neg, pos) == [neg |-> neg, pos |-> pos]

\* The filenames of dists that ms matches (find_matches(ms) filtered by
\* "fn in dists")
MatchesIn(ms, dists) == Range(find_matches(ms)) \cap dists

\* lines 465-474: packages with the same name conflict
ExclusiveClauses(dists) ==
    {Clause({fn1, fn2}, {}) : <<fn1, fn2>> \in
        {p \in dists \X dists :
            index[p[1]].name = index[p[2]].name /\ StrLess(p[1], p[2])}}

\* A variant of FeatureExclusionClauses that yields no clause.
FeatureExclusionClauses_None(matches, features) == {}

\* lines 498-501 and 513-516: no package with a feature that was not
\* requested, among the packages (matches) that ms matches
FeatureExclusionClauses(matches, features) ==
    {Clause({fn}, {}) : fn \in {f \in matches : features_of(f) \ features # {}}}

\* lines 482-501 for the package fn1, the name of one of its dependencies
\* and the packages of dists that the dependency matches
DependencyClausesFor(fn1, name, dists, features, matches) ==
    {Clause({fn1}, matches)}
      \cup {Clause({fn1}, {fn2 \in dists : index[fn2].name = name
                                           /\ feat \in features_of(fn2)}) :
              feat \in {f \in features :
                          \E fn2 \in dists : index[fn2].name = name
                                             /\ f \in features_of(fn2)}}
      \cup FeatureExclusionClauses(matches, features)

\* lines 476-501 for one package fn1 and one of its dependencies ms
DependencyClauses(fn1, ms, dists, features) ==
    DependencyClausesFor(fn1, ms.name, dists, features, MatchesIn(ms, dists))

\* lines 505-524 for the packages of dists that a requirement matches
SpecClausesFor(features, matches) ==
    {Clause({}, {fn \in matches : feat \in features_of(fn)}) :
        feat \in {f \in features : \E fn \in matches : f \in features_of(fn)}}
      \cup FeatureExclusionClauses(matches, features)
      \cup {Clause({}, matches)}

\* lines 503-524 for one requirement
SpecClauses(ms, dists, features) == SpecClausesFor(features, MatchesIn(ms, dists))

\* The assertions of lines 484 and 523 hold for dists
ClauseAssertions(dists, specs, cache) ==
    \A spec \in UNION {Range(ms_depends(cache, fn1)) : fn1 \in dists}
                  \cup Range(specs) :
        MatchesIn(MatchSpec(spec), dists) # {}

\* set(Resolve.gen_clauses(v, dists, specs, features)): [ok, clauses];
\* ~ok is a failed assertion
gen_clauses(dists, specs, features, cache) ==
    [ok |-> ClauseAssertions(dists, specs, cache),
     clauses |->
        ExclusiveClauses(dists)
          \cup UNION {UNION {DependencyClauses(fn1, MatchSpec(spec), dists, features) :
                                spec \in Range(ms_depends(cache, fn1))} :
                         fn1 \in dists}
          \cup UNION {SpecClauses(MatchSpec(spec), dists, features) :
                         spec \in Range(specs)}]

\* lines 534-536: the packages of dists of the name of pkg that are newer
\* than pkg in (norm_version, build_number)
Newer(pkg, dists) ==
    {q \in dists : /\ index[q].name = index[pkg].name
                   /\ ~SameVersionBuild(q, pkg)
                   /\ Package_lt(pkg, q)}

\* lines 537-548: the distinct (norm_version, build_number) among newer
VersionClasses(newer) == {{r \in newer : SameVersionBuild(r, q)} : q \in newer}

\* Resolve.generate_version_eq(v, dists): the coefficient of each package.
\* The packages of one name are sorted by Package, newest first, and the
\* coefficient goes up by one each time (norm_version, build_number)
\* changes, so it is the number of distinct (norm_version, build_number)
\* among the newer packages of that name.
generate_version_eq(dists) ==
    [pkg \in dists |-> Cardinality(VersionClasses(Newer(pkg, dists)))]

RECURSIVE SumOver(_, _)
SumOver(eq, S) ==
    IF S = {} THEN 0
    ELSE LET x == CHOOSE x \in S : TRUE
         IN eq[x] + SumOver(eq, S \ {x})

\* evaluate_eq(eq, sol)
evaluate_eq(eq, sol) == SumOver(eq, sol)

(***************************************************************************)
(* conda.logic: sat, min_sat, bisect_constraints                           *)
(***************************************************************************)

Satisfies(sol, clauses) ==
    \A c \in clauses : c.pos \cap sol # {} \/ ~(c.neg \subseteq sol)

\* All the solutions of the clauses, each as the set of the filenames whose
\* variable is true
Solutions(clauses, dists) == {sol \in SUBSET dists : Satisfies(sol, clauses)}

\* sat(clauses): some solution, or none
sat(clauses, dists) == Solutions(clauses, dists) # {}

\* min_sat(clauses): the solutions with the least number of true literals
min_sat(clauses, dists) ==
    LET sols == Solutions(clauses, dists)
    IN {sol \in sols : \A other \in sols : Cardinality(sol) <= Cardinality(other)}

\* bisect_constraints(0, max_rhs, clauses, ...) followed by
\* min_sat(clauses | constraints): the solutions of the least objective
\* value, and among them those with the least number of true literals
min_sat_bisect(clauses, eq, dists) ==
    LET sols == Solutions(clauses, dists)
        val == [sol \in sols |-> evaluate_eq(eq, sol)]
        best == {sol \in sols : \A other \in sols : val[sol] <= val[other]}
    IN {sol \in best : \A other \in best : Cardinality(sol) <= Cardinality(other)}

\* Lexicographic order of two lists of filenames
RECURSIVE ListLess(_, _)
ListLess(s, t) ==
    IF t = <<>> THEN FALSE
    ELSE IF s = <<>> THEN TRUE
    ELSE IF s[1] # t[1] THEN StrLess(s[1], t[1])
    ELSE ListLess(Tail(s), Tail(t))

\* solutions.pop(0), as the list [w[lit] for lit in sol if 0 < lit <= m]:
\* the solution whose list of filenames comes first
FirstSolution(solutions) ==
    LET lists == {sorted(sol) : sol \in solutions}
    IN CHOOSE l \in lists : \A o \in lists \ {l} : ListLess(l, o)

(***************************************************************************)
(* Resolve.solve2, explicit, update_with_features, solve                   *)
(***************************************************************************)

\* What solve2 returns or raises: [kind, value, path, touched].  kind is
\* "list" (value is the returned list), "NoPackagesFound", "AssertionError"
\* or "SystemExit" (sys.exit with the hint, lines 669-678, for both values
\* of minimal_hint); touched holds the filenames whose dependencies were
\* looked up.
Solve2Result(kind, value, path, touched) ==
    [kind |-> kind, value |-> value, path |-> path, touched |-> touched]

\* lines 640-644: s1 is what min_sat returned
FastSolutions(touched, s1) ==
    IF Cardinality(s1) = 1
    THEN [done |-> TRUE, out |-> Solve2Result("list", FirstSolution(s1), "fast", touched)]
    ELSE [done |-> FALSE, out |-> Solve2Result("none", <<>>, "fast", touched)]

\* lines 633-644: g1 is gen_clauses on the max_only closure d1
FastClauses(d1, g1) ==
    IF ~g1.ok
    THEN [done |-> TRUE,
          out |-> Solve2Result("AssertionError", <<>>, "fast", d1.touched \cup d1.dists)]
    ELSE FastSolutions(d1.touched \cup d1.dists,
                       IF g1.clauses = {} THEN {} ELSE min_sat(g1.clauses, d1.dists))

\* lines 617-644: d1 is what get_dists(specs, max_only=True) returned or
\* raised
FastDists(specs, features, cache, d1) ==
    IF ~d1.ok
    THEN [done |-> FALSE, out |-> Solve2Result("none", <<>>, "fast", d1.touched)]
    ELSE FastClauses(d1, gen_clauses(d1.dists, specs, features, cache))

\* lines 616-644: the fast path; done when solve2 ends there
FastPath(specs, features, cache) ==
    FastDists(specs, features, cache, get_dists(specs, TRUE, cache))

\* lines 656-725: g2 is gen_clauses on the full closure d2
GeneralClauses(d2, touched, g2) ==
    IF ~g2.ok THEN Solve2Result("AssertionError", <<>>, "general", touched)
    ELSE IF g2.clauses = {} THEN Solve2Result("list", <<>>, "general", touched)
    ELSE IF ~sat(g2.clauses, d2.dists)
    THEN Solve2Result("SystemExit", <<>>, "general", touched)
    ELSE Solve2Result("list",
                      FirstSolution(min_sat_bisect(g2.clauses,
                                                   generate_version_eq(d2.dists),
                                                   d2.dists)),
                      "general", touched)

\* lines 646-725: d2 is what get_dists(specs) returned or raised
GeneralDists(specs, features, cache, touched, d2) ==
    IF ~d2.ok
    THEN Solve2Result("NoPackagesFound", <<>>, "general", touched \cup d2.touched)
    ELSE GeneralClauses(d2, touched \cup d2.touched \cup d2.dists,
                        gen_clauses(d2.dists, specs, features, cache))

\* lines 646-725: the general path
GeneralPath(specs, features, cache, touched) ==
    GeneralDists(specs, features, cache, touched, get_dists(specs, FALSE, cache))

\* solve2 after the fast path
AfterFastPath(specs, features, cache, fast) ==
    IF fast.done THEN fast.out
    ELSE GeneralPath(specs, features, cache, fast.out.touched)

\* Resolve.solve2(specs, features, minimal_hint=...), with guess=True as
\* solve calls it
solve2(specs, features, cache) ==
    AfterFastPath(specs, features, cache, FastPath(specs, features, cache))

\* The spec 'conda', which explicit() leaves out
CondaSpec == <<"c", "o", "n", "d", "a">>

\* list.sort() of a list of filenames, duplicates kept
RECURSIVE sort(_)
sort(l) ==
    IF l = <<>> THEN <<>>
    ELSE LET i == CHOOSE k \in 1..Len(l) : \A j \in 1..Len(l) : ~StrLess(l[j], l[k])
         IN <<l[i]>> \o sort(SubSeq(l, 1, i - 1) \o SubSeq(l, i + 1, Len(l)))

\* explicit returning None
NoExplicit(touched) == [some |-> FALSE, res |-> <<>>, touched |-> touched]

\* lines 809-813
ExplicitResult(res, touched) ==
    IF <<>> \in Range(res) THEN NoExplicit(touched)
    ELSE [some |-> TRUE, res |-> sort(res), touched |-> touched]

\* [MatchSpec(spec).to_filename() for spec in specs]
Filenames(specs) == [i \in 1..Len(specs) |-> to_filename(MatchSpec(specs[i]))]

\* lines 799-804: fn is the filename of the one requirement
ExplicitOne(fn, cache) ==
    IF fn = <<>> \/ fn \notin DOMAIN index THEN NoExplicit({})
    ELSE ExplicitResult(Filenames(ms_depends(cache, fn)) \o <<fn>>, {fn})

\* Resolve.explicit(specs): [some, res, touched]; ~some is None
explicit(specs, cache) ==
    IF Len(specs) = 1
    THEN ExplicitOne(to_filename(MatchSpec(specs[1])), cache)
    ELSE ExplicitResult(Filenames(SelectSeq(specs, LAMBDA spec : spec # CondaSpec)), {})

\* d[ms.name] = ms on a dict kept as the list of its values
DictPut(d, spec) ==
    IF \E i \in 1..Len(d) : MatchSpec(d[i]).name = MatchSpec(spec).name
    THEN [i \in 1..Len(d) |->
            IF MatchSpec(d[i]).name = MatchSpec(spec).name THEN spec ELSE d[i]]
    ELSE Append(d, spec)

RECURSIVE DictPutAll(_, _)
DictPutAll(d, specs) ==
    IF specs = <<>> THEN d
    ELSE DictPutAll(DictPut(d, Head(specs)), Tail(specs))

\* lines 858-862: the position in with_features_depends of the chosen key,
\* 0 for key = ''; the loop keeps the first key with the most features
\* among those that are subsets of features
RECURSIVE ChooseKey(_, _, _, _)
ChooseKey(with_features, i, features, key) ==
    IF i > Len(with_features) THEN key
    ELSE LET fs == with_features[i].fs
             n == IF key = 0 THEN 0 ELSE Cardinality(with_features[key].fs)
         IN ChooseKey(with_features, i + 1, features,
                      IF fs \subseteq features /\ Cardinality(fs) > n THEN i ELSE key)

\* lines 863-869: key is the position of the chosen key
UpdateWithKey(fn, cache, with_features, key) ==
    IF key = 0 THEN cache
    ELSE [f \in DOMAIN cache \cup {fn} |->
            IF f = fn
            THEN DictPutAll(DictPutAll(<<>>, ms_depends(cache, fn)),
                            with_features[key].deps)
            ELSE cache[f]]

\* Resolve.update_with_features(fn, features): the msd_cache it leaves
update_with_features(fn, features, cache) ==
    UpdateWithKey(fn, cache, index[fn].with_features_depends,
                  ChooseKey(index[fn].with_features_depends, 1, features, 0))

RECURSIVE UpdateAll(_, _, _)
UpdateAll(fns, features, cache) ==
    IF fns = <<>> THEN cache
    ELSE UpdateAll(Tail(fns), features, update_with_features(Head(fns), features, cache))

RECURSIVE Flatten(_)
Flatten(ll) == IF ll = <<>> THEN <<>> ELSE Head(ll) \o Flatten(Tail(ll))

\* What solve returns or raises: [kind, value, path, features, cache],
\* where features is the feature set after line 881 and cache the
\* msd_cache the call leaves.
SolveResult(kind, value, path, features, cache) ==
    [kind |-> kind, value |-> value, path |-> path, features |-> features,
     cache |-> cache]

\* lines 890-891: r is the outcome of solve2
SolveSolved(feats, cache1, touched, r) ==
    SolveResult(r.kind, r.value, r.path, feats, Filled(cache1, r.touched \cup touched))

\* lines 890-891: e is what explicit(specs) returned
SolveExplicit(specs, feats, cache1, e) ==
    IF e.some /\ e.res # <<>>
    THEN SolveResult("list", e.res, "explicit", feats, Filled(cache1, e.touched))
    ELSE SolveSolved(feats, cache1, e.touched, solve2(specs, feats, cache1))

\* lines 883-891: feats is the feature set after the loop of lines 877-881
SolveFeatures(specs, cache, fns, feats) ==
    SolveExplicit(specs, feats, UpdateAll(fns, feats, cache),
                  explicit(specs, UpdateAll(fns, feats, cache)))

\* lines 877-891: fns lists pkg.fn over the packages of the requirements
SolveFns(specs, features, cache, fns) ==
    SolveFeatures(specs, cache, fns,
                  features \cup UNION {track_features(fn) : fn \in Range(fns)})

\* lines 877-891: got[i] is what get_pkgs gives for specs[i]
SolveGot(specs, features, cache, got) ==
    IF \E i \in 1..Len(got) : ~got[i].ok
    THEN SolveResult("NoPackagesFound", <<>>, "get_pkgs", features, cache)
    ELSE SolveFns(specs, features, cache,
                  Flatten([i \in 1..Len(got) |-> got[i].pkgs]))

\* Resolve.solve(specs, features=features, max_only=..., minimal_hint=...)
solve(specs, features, max_only, cache) ==
    SolveGot(specs, features, cache,
             [i \in 1..Len(specs) |-> get_pkgs(MatchSpec(specs[i]), max_only)])

(***************************************************************************)
(* Indexes and the calls made on a Resolve instance                        *)
(***************************************************************************)

\* One entry of the index: the metadata of name-version-build.tar.bz2.
\* features and track_features are the sets of the words of the metadata
\* strings; with_features_depends lists its keys (as sets of words) with
\* their dependency lists, in the order of the dict.
Entry(name, version, build, build_number, depends, features, track, with_features) ==
    Filename(name, version, build) :>
        [name |-> name, version |-> version, build |-> build,
         build_number |-> build_number, depends |-> depends,
         features |-> features, track_features |-> track,
         with_features_depends |-> with_features]

\* Index 1: pins, explicit specs and the spec 'conda'
Index1 ==
    \* a-1-0.tar.bz2: depends ['c']
    Entry(<<"a">>, <<"1">>, <<"0">>, 0,
          <<<<"c">>>>, {}, {},
          <<>>) @@
    \* a-2-0.tar.bz2: depends []
    Entry(<<"a">>, <<"2">>, <<"0">>, 0,
          <<>>, {}, {},
          <<>>) @@
    \* b-1-0.tar.bz2: depends []
    Entry(<<"b">>, <<"1">>, <<"0">>, 0,
          <<>>, {}, {},
          <<>>) @@
    \* c-1-0.tar.bz2: depends []
    Entry(<<"c">>, <<"1">>, <<"0">>, 0,
          <<>>, {}, {},
          <<>>) @@
    \* conda-1-0.tar.bz2: depends []
    Entry(<<"c", "o", "n", "d", "a">>, <<"1">>, <<"0">>, 0,
          <<>>, {}, {},
          <<>>) @@
    \* p-1-0.tar.bz2: depends ['a 1 0']
    Entry(<<"p">>, <<"1">>, <<"0">>, 0,
          <<<<"a", " ", "1", " ", "0">>>>, {}, {},
          <<>>)

\* The requirement lists and feature sets callers pass with index 1
SpecLists1 ==
    { <<<<"a", " ", "1", " ", "0">>, <<"a", " ", "2", " ", "0">>>>,   \* ['a 1 0', 'a 2 0']
      <<<<"c", "o", "n", "d", "a">>, <<"b", " ", "1", " ", "0">>>>,   \* ['conda', 'b 1 0']
      <<<<"p", " ", "1", " ", "0">>>>,   \* ['p 1 0']
      <<<<"p">>>>,   \* ['p']
      <<<<"a">>>> }   \* ['a']

FeatureSets1 == {{}}

\* Index 2: newest versions against older ones
Index2 ==
    \* a-1-0.tar.bz2: depends []
    Entry(<<"a">>, <<"1">>, <<"0">>, 0,
          <<>>, {}, {},
          <<>>) @@
    \* a-2-0.tar.bz2: depends ['b <2']
    Entry(<<"a">>, <<"2">>, <<"0">>, 0,
          <<<<"b", " ", "<", "2">>>>, {}, {},
          <<>>) @@
    \* b-1-0.tar.bz2: depends []
    Entry(<<"b">>, <<"1">>, <<"0">>, 0,
          <<>>, {}, {},
          <<>>) @@
    \* b-2-0.tar.bz2: depends []
    Entry(<<"b">>, <<"2">>, <<"0">>, 0,
          <<>>, {}, {},
          <<>>) @@
    \* b-3-0.tar.bz2: depends []
    Entry(<<"b">>, <<"3">>, <<"0">>, 0,
          <<>>, {}, {},
          <<>>)

\* The requirement lists and feature sets callers pass with index 2
SpecLists2 ==
    { <<<<"a">>, <<"b">>>>,   \* ['a', 'b']
      <<<<"a">>>>,   \* ['a']
      <<<<"b", " ", "<", "2">>, <<"b", " ", ">", "=", "2">>>>,   \* ['b <2', 'b >=2']
      <<<<"g", "h", "o", "s", "t">>>> }   \* ['ghost']

FeatureSets2 == {{}}

\* Index 3: with_features_depends and track_features
Index3 ==
    \* a-1-0.tar.bz2: depends ['b'], with_features_depends {'f': ['b <2']}
    Entry(<<"a">>, <<"1">>, <<"0">>, 0,
          <<<<"b">>>>, {}, {},
          <<[fs |-> {"f"}, deps |-> <<<<"b", " ", "<", "2">>>>]>>) @@
    \* b-1-0.tar.bz2: depends []
    Entry(<<"b">>, <<"1">>, <<"0">>, 0,
          <<>>, {}, {},
          <<>>) @@
    \* b-2-0.tar.bz2: depends []
    Entry(<<"b">>, <<"2">>, <<"0">>, 0,
          <<>>, {}, {},
          <<>>) @@
    \* t-1-0.tar.bz2: depends [], track_features 'f'
    Entry(<<"t">>, <<"1">>, <<"0">>, 0,
          <<>>, {}, {"f"},
          <<>>)

\* The requirement lists and feature sets callers pass with index 3
SpecLists3 ==
    { <<<<"a">>>>,   \* ['a']
      <<<<"a">>, <<"b">>>>,   \* ['a', 'b']
      <<<<"a">>, <<"t">>>> }   \* ['a', 't']

FeatureSets3 == {{}, {"f"}}

\* Index 4: features, failing candidates and pins
Index4 ==
    \* l-1-0.tar.bz2: depends [], features 'g'
    Entry(<<"l">>, <<"1">>, <<"0">>, 0,
          <<>>, {"g"}, {},
          <<>>) @@
    \* m-1-0.tar.bz2: depends []
    Entry(<<"m">>, <<"1">>, <<"0">>, 0,
          <<>>, {}, {},
          <<>>) @@
    \* m-2-0.tar.bz2: depends [], features 'f'
    Entry(<<"m">>, <<"2">>, <<"0">>, 0,
          <<>>, {"f"}, {},
          <<>>) @@
    \* t-1-0.tar.bz2: depends ['x']
    Entry(<<"t">>, <<"1">>, <<"0">>, 0,
          <<<<"x">>>>, {}, {},
          <<>>) @@
    \* u-1-0.tar.bz2: depends ['m']
    Entry(<<"u">>, <<"1">>, <<"0">>, 0,
          <<<<"m">>>>, {}, {},
          <<>>) @@
    \* v-1-0.tar.bz2: depends ['z']
    Entry(<<"v">>, <<"1">>, <<"0">>, 0,
          <<<<"z">>>>, {}, {},
          <<>>) @@
    \* v-2-0.tar.bz2: depends []
    Entry(<<"v">>, <<"2">>, <<"0">>, 0,
          <<>>, {}, {},
          <<>>) @@
    \* w-1-0.tar.bz2: depends ['v 1 0']
    Entry(<<"w">>, <<"1">>, <<"0">>, 0,
          <<<<"v", " ", "1", " ", "0">>>>, {}, {},
          <<>>) @@
    \* x-1-0.tar.bz2: depends []
    Entry(<<"x">>, <<"1">>, <<"0">>, 0,
          <<>>, {}, {},
          <<>>) @@
    \* x-2-0.tar.bz2: depends ['l', 'z']
    Entry(<<"x">>, <<"2">>, <<"0">>, 0,
          <<<<"l">>, <<"z">>>>, {}, {},
          <<>>)

\* The requirement lists and feature sets callers pass with index 4
SpecLists4 ==
    { <<<<"t">>>>,   \* ['t']
      <<<<"u">>>>,   \* ['u']
      <<<<"v">>, <<"w">>>> }   \* ['v', 'w']

FeatureSets4 == {{}, {"f"}}

Scenarios ==
    { [index |-> Index1, specs |-> SpecLists1, features |-> FeatureSets1],
      [index |-> Index2, specs |-> SpecLists2, features |-> FeatureSets2],
      [index |-> Index3, specs |-> SpecLists3, features |-> FeatureSets3],
      [index |-> Index4, specs |-> SpecLists4, features |-> FeatureSets4] }

\* vcmp before VersionOrder objects were compared
NoCmp == [done |-> FALSE, ok |-> FALSE, lt |-> FALSE, eq |-> FALSE, gt |-> FALSE]

\* The number of calls made on one Resolve instance is at most MaxCalls.
MaxCalls == 2

NoCall ==
    [op |-> "none", specs |-> <<>>, features |-> {}, max_only |-> FALSE,
     minimal_hint |-> FALSE, kind |-> "none", value |-> <<>>, path |-> "none",
     features2 |-> {}, failed |-> {}]

\* No get_dists call is in progress
Idle ==
    [pc |-> "idle", specs |-> <<>>, max_only |-> FALSE, i |-> 0, pkgs |-> <<>>,
     j |-> 0, found |-> FALSE, dists |-> {}, res |-> {}, frames |-> <<>>,
     reentered |-> {}]

\* Resolve(index): lines 370-375
Init ==
    /\ \E sc \in Scenarios :
          /\ index = sc.index
          /\ requests = [specs |-> sc.specs, features |-> sc.features]
    /\ msd_cache = <<>>
    /\ last = NoCall
    /\ ncalls = 0
    /\ verA = <<>>
    /\ verB = <<>>
    /\ vcmp = NoCmp
    /\ run = Idle

\* A process that ran sys.exit makes no further calls
Running == last.kind # "SystemExit" /\ ncalls < MaxCalls

\* r.solve(specs, features=features, max_only=max_only,
\*         minimal_hint=minimal_hint)
Solve(specs, features, max_only, minimal_hint) ==
    /\ Running
    /\ \E r \in {solve(specs, features, max_only, msd_cache)} :
          /\ msd_cache' = r.cache
          /\ last' = [op |-> "solve", specs |-> specs, features |-> features,
                      max_only |-> max_only, minimal_hint |-> minimal_hint,
                      kind |-> r.kind, value |-> r.value, path |-> r.path,
                      features2 |-> r.features, failed |-> {}]
    /\ ncalls' = ncalls + 1
    /\ UNCHANGED <<index, requests, verA, verB, vcmp, run>>

\* r.get_dists(specs, max_only=max_only)
GetDists(specs, max_only) ==
    /\ Running
    /\ \E r \in {get_dists(specs, max_only, msd_cache)} :
          /\ msd_cache' = Filled(msd_cache, r.touched)
          /\ last' = [NoCall EXCEPT !.op = "get_dists", !.specs = specs,
                                    !.max_only = max_only,
                                    !.kind = IF r.ok THEN "dists" ELSE "NoPackagesFound",
                                    !.value = IF r.ok THEN r.dists ELSE {},
                                    !.failed = r.failed]
    /\ ncalls' = ncalls + 1
    /\ UNCHANGED <<index, requests, verA, verB, vcmp, run>>

Next ==
    \/ \E specs \in requests.specs, features \in requests.features,
          max_only \in BOOLEAN, minimal_hint \in BOOLEAN :
            Solve(specs, features, max_only, minimal_hint)
    \/ \E specs \in requests.specs, max_only \in BOOLEAN :
            GetDists(specs, max_only)

Spec == Init /\ [][Next]_vars

(***************************************************************************)
(* Version strings handed to VersionOrder                                  *)
(***************************************************************************)

\* The version strings are concatenations of at most MaxPieces pieces.
MaxPieces == 2

Pieces ==
    { <<"1">>, <<"a">>, <<"A">>, <<"d", "e", "v">>, <<"p", "o", "s", "t">>,
      <<"*">>, <<"_">>, <<".">>, <<"!">> }

RECURSIVE PieceStrings(_)
PieceStrings(n) ==
    IF n = 0 THEN {<<>>}
    ELSE LET shorter == PieceStrings(n - 1)
         IN shorter \cup {s \o p : s \in shorter, p \in Pieces}

VersionStrings == PieceStrings(MaxPieces)

\* Construct VersionOrder(verA) and VersionOrder(verB) and, when both are
\* well formed, evaluate <, == and > between them.
Compare ==
    /\ ~vcmp.done
    /\ LET a == VersionOrder(verA)
           b == VersionOrder(verB)
       IN vcmp' = IF a.ok /\ b.ok
                  THEN [done |-> TRUE, ok |-> TRUE,
                        lt |-> VersionOrder_lt(a.version, b.version),
                        eq |-> VersionOrder_eq(a.version, b.version),
                        gt |-> VersionOrder_gt(a.version, b.version)]
                  ELSE [NoCmp EXCEPT !.done = TRUE]
    /\ UNCHANGED <<index, requests, msd_cache, last, ncalls, verA, verB, run>>

InitVersion ==
    /\ verA \in VersionStrings
    /\ verB \in VersionStrings
    /\ vcmp = NoCmp
    /\ run = Idle
    /\ index = <<>>
    /\ requests = [specs |-> {}, features |-> {}]
    /\ msd_cache = <<>>
    /\ last = NoCall
    /\ ncalls = 0

NextVersion == Compare

SpecVersion == InitVersion /\ [][NextVersion]_vars

(***************************************************************************)
(* Construction of a VersionOrder from any string                          *)
(***************************************************************************)

\* The strings handed to VersionOrder have at most MaxChars characters.
MaxChars == 3

\* A numeral, a letter, the separators, and two characters that
\* version_check_re does not allow
ConstructChars == {"1", "a", ".", "!", "-", " "}

RECURSIVE CharStrings(_)
CharStrings(n) ==
    IF n = 0 THEN {<<>>}
    ELSE LET shorter == CharStrings(n - 1)
         IN shorter \cup {s \o <<c>> : s \in shorter, c \in ConstructChars}

\* VersionOrder(verA): the object is constructed, or ValueError is raised
Construct ==
    /\ last.op = "none"
    /\ \E r \in {VersionOrder(verA)} :
          last' = [NoCall EXCEPT !.op = "VersionOrder",
                                 !.kind = IF r.ok THEN "VersionOrder" ELSE "ValueError",
                                 !.path = r.err]
    /\ UNCHANGED <<index, requests, msd_cache, ncalls, verA, verB, vcmp, run>>

InitConstruct ==
    /\ verA \in CharStrings(MaxChars)
    /\ verB = <<>>
    /\ vcmp = NoCmp
    /\ run = Idle
    /\ index = <<>>
    /\ requests = [specs |-> {}, features |-> {}]
    /\ msd_cache = <<>>
    /\ last = NoCall
    /\ ncalls = 0

SpecConstruct == InitConstruct /\ [][Construct]_vars

(***************************************************************************)
(* MatchSpec(spec).match(fn) on its own                                    *)
(***************************************************************************)

\* The spec strings handed to MatchSpec
MatchSpecStrings ==
    { <<"a">>,   \* 'a'
      <<"b">>,   \* 'b'
      <<"a", " ", "1", ".", "0">>,   \* 'a 1.0'
      <<"a", " ", "1", "*">>,   \* 'a 1*'
      <<"a", " ", "1", ".", "*">>,   \* 'a 1.*'
      <<"a", " ", "*">>,   \* 'a *'
      <<"a", " ", "1", ".", "0", ".", "0">>,   \* 'a 1.0.0'
      <<"a", " ", "=", "=", "1", ".", "0">>,   \* 'a ==1.0'
      <<"a", " ", "!", "=", "1", ".", "0">>,   \* 'a !=1.0'
      <<"a", " ", "<", "=", "1", ".", "0">>,   \* 'a <=1.0'
      <<"a", " ", ">", "=", "1", ".", "0">>,   \* 'a >=1.0'
      <<"a", " ", "<", "1", ".", "0">>,   \* 'a <1.0'
      <<"a", " ", ">", "1", ".", "0", "a">>,   \* 'a >1.0a'
      <<"a", " ", ">", "=", "1", ".", "0", ",", "<", "2">>,   \* 'a >=1.0,<2'
      <<"a", " ", "1", ".", "1", "|", "2", "*">>,   \* 'a 1.1|2*'
      <<"a", " ", "2", "*", "|", ">", "=", "1", ".", "0", ",", "<", "1", ".", "1">>,   \* 'a 2*|>=1.0,<1.1'
      <<"a", " ", "1", "*", ",", "!", "=", "1", ".", "1", "|", "2", ".", "0">>,   \* 'a 1*,!=1.1|2.0'
      <<"a", " ", "=", "1", ".", "0">>,   \* 'a =1.0'
      <<"a", " ", "<", ">", "1", "|", "1", ".", "0">>,   \* 'a <>1|1.0'
      <<"a", " ", "1", ".", "0", "|", "<", ">", "1">>,   \* 'a 1.0|<>1'
      <<"a", " ", ">", "=", "1", ".", ".", "0">>,   \* 'a >=1..0'
      <<"a", " ", "1", ".", "0", " ", "0">>,   \* 'a 1.0 0'
      <<"a", " ", "1", ".", "0", " ", "1">>,   \* 'a 1.0 1'
      <<"a", " ", "1", ".", "1", " ", "0">>,   \* 'a 1.1 0'
      <<"b", " ", "1", ".", "0", " ", "0">> }   \* 'b 1.0 0'

\* The filenames handed to match
MatchFilenames ==
    { Filename(<<"a">>, <<"1", ".", "0">>, <<"0">>),
      Filename(<<"a">>, <<"1", ".", "0">>, <<"1">>),
      Filename(<<"a">>, <<"1", ".", "1">>, <<"0">>),
      Filename(<<"a">>, <<"2", ".", "0">>, <<"0">>),
      Filename(<<"a">>, <<"1", ".", "0", "a">>, <<"0">>),
      Filename(<<"a">>, <<"1", ".", "0", ".", "0">>, <<"0">>),
      Filename(<<"a">>, <<"1", ".", ".", "0">>, <<"0">>),
      Filename(<<"b">>, <<"1", ".", "0">>, <<"0">>) }

\* MatchSpec(spec).match(fn): last.kind is "T", "F", or "E" when it raises
Match(spec, fn) ==
    /\ last.op = "none"
    /\ last' = [NoCall EXCEPT !.op = "match", !.specs = <<spec>>, !.value = fn,
                              !.kind = MatchSpec_match(MatchSpec(spec), fn)]
    /\ UNCHANGED <<index, requests, msd_cache, ncalls, verA, verB, vcmp, run>>

InitMatch ==
    /\ index = <<>>
    /\ requests = [specs |-> {}, features |-> {}]
    /\ msd_cache = <<>>
    /\ last = NoCall
    /\ ncalls = 0
    /\ verA = <<>>
    /\ verB = <<>>
    /\ vcmp = NoCmp
    /\ run = Idle

SpecMatch ==
    InitMatch
      /\ [][\E spec \in MatchSpecStrings, fn \in MatchFilenames : Match(spec, fn)]_vars

(***************************************************************************)
(* Packages and get_pkgs on the indexes made of a pool of artifacts        *)
(***************************************************************************)

\* Artifacts that differ in version, build number and build string
PoolIndex ==
    \* a-1.0-py27_0.tar.bz2: build_number 0
    Entry(<<"a">>, <<"1", ".", "0">>, <<"p", "y", "2", "7", "_", "0">>, 0,
          <<>>, {}, {}, <<>>) @@
    \* a-1.0-py27_1.tar.bz2: build_number 1
    Entry(<<"a">>, <<"1", ".", "0">>, <<"p", "y", "2", "7", "_", "1">>, 1,
          <<>>, {}, {}, <<>>) @@
    \* a-1.0-py33_1.tar.bz2: build_number 1
    Entry(<<"a">>, <<"1", ".", "0">>, <<"p", "y", "3", "3", "_", "1">>, 1,
          <<>>, {}, {}, <<>>) @@
    \* a-0.9-z_5.tar.bz2: build_number 5
    Entry(<<"a">>, <<"0", ".", "9">>, <<"z", "_", "5">>, 5,
          <<>>, {}, {}, <<>>) @@
    \* a-1.0a-x_1.tar.bz2: build_number 1
    Entry(<<"a">>, <<"1", ".", "0", "a">>, <<"x", "_", "1">>, 1,
          <<>>, {}, {}, <<>>) @@
    \* a-1.0A-y_1.tar.bz2: build_number 1
    Entry(<<"a">>, <<"1", ".", "0", "A">>, <<"y", "_", "1">>, 1,
          <<>>, {}, {}, <<>>) @@
    \* b-1.0-0.tar.bz2: build_number 0
    Entry(<<"b">>, <<"1", ".", "0">>, <<"0">>, 0,
          <<>>, {}, {}, <<>>)

\* The requirements handed to get_pkgs
PoolSpecs ==
    { <<"a">>,   \* 'a'
      <<"b">>,   \* 'b'
      <<"a", " ", "1", ".", "0">>,   \* 'a 1.0'
      <<"a", " ", "1", ".", "0", "*">>,   \* 'a 1.0*'
      <<"a", " ", "<", "1", ".", "0">>,   \* 'a <1.0'
      <<"c">> }   \* 'c'

\* r.get_pkgs(MatchSpec(spec), max_only=max_only)
GetPkgs(spec, max_only) ==
    /\ last.op = "none"
    /\ \E r \in {get_pkgs(MatchSpec(spec), max_only)} :
          last' = [NoCall EXCEPT !.op = "get_pkgs", !.specs = <<spec>>,
                                 !.max_only = max_only,
                                 !.kind = IF r.ok THEN "pkgs" ELSE "NoPackagesFound",
                                 !.value = r.pkgs]
    /\ UNCHANGED <<index, requests, msd_cache, ncalls, verA, verB, vcmp, run>>

\* Package(fn1, index[fn1]) and Package(fn2, index[fn2]) compared with <,
\* > and ==; < and > raise TypeError for packages of different names
ComparePkgs(fn1, fn2) ==
    /\ last.op = "none"
    /\ last' = [NoCall EXCEPT
                  !.op = "Package.__lt__", !.specs = <<fn1, fn2>>,
                  !.kind = IF index[fn1].name # index[fn2].name
                           THEN "TypeError" ELSE "bool",
                  !.value = IF index[fn1].name # index[fn2].name
                            THEN [lt |-> FALSE, gt |-> FALSE,
                                  eq |-> Package_eq(fn1, fn2)]
                            ELSE [lt |-> Package_lt(fn1, fn2),
                                  gt |-> Package_lt(fn2, fn1),
                                  eq |-> Package_eq(fn1, fn2)]]
    /\ UNCHANGED <<index, requests, msd_cache, ncalls, verA, verB, vcmp, run>>

\* Resolve(index) for an index that holds some artifacts of the pool
InitPkgs ==
    /\ \E S \in SUBSET (DOMAIN PoolIndex) :
          /\ S # {}
          /\ index = [fn \in S |-> PoolIndex[fn]]
    /\ requests = [specs |-> {}, features |-> {}]
    /\ msd_cache = <<>>
    /\ last = NoCall
    /\ ncalls = 0
    /\ verA = <<>>
    /\ verB = <<>>
    /\ vcmp = NoCmp
    /\ run = Idle

NextPkgs ==
    \/ \E spec \in PoolSpecs, max_only \in BOOLEAN : GetPkgs(spec, max_only)
    \/ \E fn1, fn2 \in DOMAIN index : ComparePkgs(fn1, fn2)

SpecPkgs == InitPkgs /\ [][NextPkgs]_vars

(***************************************************************************)
(* get_dists, all_deps and add_dependents step by step                     *)
(***************************************************************************)

\* An index with dependency cycles (a and b, s on itself), a candidate that
\* is rolled back and tried again (u-1-0, for r and for k), and an exact pin
IndexCyc ==
    \* a-1-0.tar.bz2: depends ['b']
    Entry(<<"a">>, <<"1">>, <<"0">>, 0,
          <<<<"b">>>>, {}, {}, <<>>) @@
    \* b-1-0.tar.bz2: depends ['a']
    Entry(<<"b">>, <<"1">>, <<"0">>, 0,
          <<<<"a">>>>, {}, {}, <<>>) @@
    \* s-1-0.tar.bz2: depends ['s']
    Entry(<<"s">>, <<"1">>, <<"0">>, 0,
          <<<<"s">>>>, {}, {}, <<>>) @@
    \* r-1-0.tar.bz2: depends ['u', 'k']
    Entry(<<"r">>, <<"1">>, <<"0">>, 0,
          <<<<"u">>, <<"k">>>>, {}, {}, <<>>) @@
    \* u-0-0.tar.bz2: depends []
    Entry(<<"u">>, <<"0">>, <<"0">>, 0,
          <<>>, {}, {}, <<>>) @@
    \* u-1-0.tar.bz2: depends ['w', 'z']
    Entry(<<"u">>, <<"1">>, <<"0">>, 0,
          <<<<"w">>, <<"z">>>>, {}, {}, <<>>) @@
    \* w-1-0.tar.bz2: depends []
    Entry(<<"w">>, <<"1">>, <<"0">>, 0,
          <<>>, {}, {}, <<>>) @@
    \* k-1-0.tar.bz2: depends ['u']
    Entry(<<"k">>, <<"1">>, <<"0">>, 0,
          <<<<"u">>>>, {}, {}, <<>>) @@
    \* q-1-0.tar.bz2: depends ['w 1 0']
    Entry(<<"q">>, <<"1">>, <<"0">>, 0,
          <<<<"w", " ", "1", " ", "0">>>>, {}, {}, <<>>)

\* The requirement lists handed to get_dists with this index
CycSpecs ==
    { <<<<"a">>>>,   \* ['a']
      <<<<"s">>>>,   \* ['s']
      <<<<"r">>>>,   \* ['r']
      <<<<"k">>>>,   \* ['k']
      <<<<"q">>, <<"w">>>>,   \* ['q', 'w']
      <<<<"b">>, <<"a">>>>,   \* ['b', 'a']
      <<<<"a">>, <<"s">>, <<"r">>>>,   \* ['a', 's', 'r']
      <<<<"z">>>> }   \* ['z']

\* The locals of a call add_dependents(fn): i is the position in
\* ms_depends(fn), pkgs the list get_pkgs(ms) gave, j the position in it
\* (0 before get_pkgs was called) and found the flag of line 435
Frame(fn) == [fn |-> fn, i |-> 1, pkgs |-> <<>>, j |-> 0, found |-> FALSE]

\* The innermost call of add_dependents
Top == run.frames[Len(run.frames)]

\* lines 440-443: res[pkg2.fn] = pkg2 and the call add_dependents(pkg2.fn);
\* reentered notes a call for a filename that has a call on the stack
Pushed(pkg2) ==
    [run EXCEPT !.res = @ \cup {pkg2},
                !.frames = Append(@, Frame(pkg2)),
                !.reentered = IF \E k \in 1..Len(run.frames) : run.frames[k].fn = pkg2
                              THEN @ \cup {pkg2} ELSE @]

\* The innermost add_dependents returns: to its caller add_dependents
\* (lines 450-451), or through all_deps to get_dists (lines 458, 562,
\* 569-570)
Returned ==
    IF Len(run.frames) = 1
    THEN [run EXCEPT !.pc = "specs", !.frames = <<>>,
                     !.dists = @ \cup run.res \cup {run.pkgs[run.j]},
                     !.found = TRUE, !.j = @ + 1]
    ELSE [run EXCEPT !.frames = SubSeq(@, 1, Len(@) - 2)
                         \o <<[@[Len(@) - 1] EXCEPT !.found = TRUE, !.j = @ + 1]>>]

\* The innermost add_dependents raises NoPackagesFound: its caller
\* add_dependents deletes the candidate from res (lines 444-449), or
\* get_dists drops the candidate (lines 563-567)
Raised ==
    IF Len(run.frames) = 1
    THEN [run EXCEPT !.pc = "specs", !.frames = <<>>, !.j = @ + 1]
    ELSE [run EXCEPT !.res = @ \ {Top.fn},
                     !.frames = SubSeq(@, 1, Len(@) - 2)
                         \o <<[@[Len(@) - 1] EXCEPT !.j = @ + 1]>>]

\* r.get_dists(specs, max_only=max_only) is called: line 553
CallGetDists(specs, max_only) ==
    /\ run.pc = "idle"
    /\ run' = [Idle EXCEPT !.pc = "specs", !.specs = specs,
                           !.max_only = max_only, !.i = 1]
    /\ UNCHANGED <<index, requests, msd_cache, last, ncalls, verA, verB, vcmp>>

\* lines 554-557 and 574: the next spec and its get_pkgs, or the return
NextSpec ==
    /\ run.pc = "specs" /\ run.j = 0
    /\ IF run.i > Len(run.specs)
       THEN run' = [run EXCEPT !.pc = "returned"]
       ELSE \E g \in {get_pkgs(MatchSpec(run.specs[run.i]), run.max_only)} :
               run' = IF g.ok
                      THEN [run EXCEPT !.pkgs = g.pkgs, !.j = 1, !.found = FALSE]
                      ELSE [run EXCEPT !.pc = "raised"]
    /\ UNCHANGED <<index, requests, msd_cache, last, ncalls, verA, verB, vcmp>>

\* lines 557-572: the next candidate of the spec; all_deps is called for it
\* (lines 430 and 457), or the loop over the candidates ends
NextCandidate ==
    /\ run.pc = "specs" /\ run.j >= 1
    /\ IF run.j > Len(run.pkgs)
       THEN /\ run' = IF run.found THEN [run EXCEPT !.i = @ + 1, !.j = 0]
                      ELSE [run EXCEPT !.pc = "raised"]
            /\ UNCHANGED msd_cache
       ELSE IF run.pkgs[run.j] \in run.dists
       THEN /\ run' = [run EXCEPT !.found = TRUE, !.j = @ + 1]
            /\ UNCHANGED msd_cache
       ELSE /\ run' = [run EXCEPT !.pc = "deps", !.res = {},
                                  !.frames = <<Frame(run.pkgs[run.j])>>]
            /\ msd_cache' = Filled(msd_cache, {run.pkgs[run.j]})
    /\ UNCHANGED <<index, requests, last, ncalls, verA, verB, vcmp>>

\* lines 433-436: the next dependency of the innermost add_dependents and
\* its get_pkgs, or the return of add_dependents
NextDepend ==
    /\ run.pc = "deps" /\ Top.j = 0
    /\ IF Top.i > Len(ms_depends(msd_cache, Top.fn))
       THEN run' = Returned
       ELSE \E g \in {get_pkgs(MatchSpec(ms_depends(msd_cache, Top.fn)[Top.i]),
                               run.max_only)} :
               run' = IF g.ok
                      THEN [run EXCEPT !.frames[Len(run.frames)] =
                               [@ EXCEPT !.pkgs = g.pkgs, !.j = 1, !.found = FALSE]]
                      ELSE Raised
    /\ UNCHANGED <<index, requests, msd_cache, last, ncalls, verA, verB, vcmp>>

\* lines 436-455: the next candidate pkg2 of the dependency, or the end of
\* the loop over the candidates
NextDependCandidate ==
    /\ run.pc = "deps" /\ Top.j >= 1
    /\ IF Top.j > Len(Top.pkgs)
       THEN /\ run' = IF Top.found
                      THEN [run EXCEPT !.frames[Len(run.frames)] =
                               [@ EXCEPT !.i = @ + 1, !.j = 0]]
                      ELSE Raised
            /\ UNCHANGED msd_cache
       ELSE IF Top.pkgs[Top.j] \in run.res
       THEN /\ run' = [run EXCEPT !.frames[Len(run.frames)] =
                          [@ EXCEPT !.found = TRUE, !.j = @ + 1]]
            /\ UNCHANGED msd_cache
       ELSE IF MatchSpec(ms_depends(msd_cache, Top.fn)[Top.i]).strictness >= 3
       THEN /\ run' = [run EXCEPT !.res = @ \cup {Top.pkgs[Top.j]},
                                  !.frames[Len(run.frames)] =
                                      [@ EXCEPT !.found = TRUE, !.j = @ + 1]]
            /\ UNCHANGED msd_cache
       ELSE /\ run' = Pushed(Top.pkgs[Top.j])
            /\ msd_cache' = Filled(msd_cache, {Top.pkgs[Top.j]})
    /\ UNCHANGED <<index, requests, last, ncalls, verA, verB, vcmp>>

\* Resolve(index) for the index with cycles
InitClosure ==
    /\ index = IndexCyc
    /\ requests = [specs |-> CycSpecs, features |-> {{}}]
    /\ msd_cache = <<>>
    /\ last = NoCall
    /\ ncalls = 0
    /\ verA = <<>>
    /\ verB = <<>>
    /\ vcmp = NoCmp
    /\ run = Idle

NextClosure ==
    \/ \E specs \in requests.specs, max_only \in BOOLEAN : CallGetDists(specs, max_only)
    \/ NextSpec
    \/ NextCandidate
    \/ NextDepend
    \/ NextDependCandidate

\* The interpreter keeps running the call until it returns or raises
SpecClosure == InitClosure /\ [][NextClosure]_vars /\ WF_vars(NextClosure)

(***************************************************************************)
(* Claims about VersionOrder                                               *)
(***************************************************************************)

Count(b) == IF b THEN 1 ELSE 0

MixedSlot(v, w) ==
    \E p \in Slots(v, w) :
        LET c1 == PadTok(PadComp(v, p[1]), p[2])
            c2 == PadTok(PadComp(w, p[1]), p[2])
        IN c1.k # c2.k \/ p[1] > Len(v) \/ p[1] > Len(w)

DevTok == StrTok(<<"D", "E", "V">>)

\* ta and tb are the same except in exactly one slot, where ta has x
OneSlotDiffers(ta, tb, x) ==
    /\ Len(ta) = Len(tb)
    /\ \A k \in 1..Len(ta) : Len(ta[k]) = Len(tb[k])
    /\ \E k \in 1..Len(ta) : \E j \in 1..Len(ta[k]) :
          /\ ta[k][j] = x
          /\ tb[k][j] # x
          /\ \A k2 \in 1..Len(ta) : \A j2 \in 1..Len(ta[k2]) :
                (<<k2, j2>> # <<k, j>>) => ta[k2][j2] = tb[k2][j2]

\* The subcomponent of tb in the one slot where ta and tb differ
OtherTok(ta, tb) ==
    LET slots == UNION {{<<k, j>> : j \in 1..Len(ta[k])} : k \in 1..Len(ta)}
        p == CHOOSE p \in slots : ta[p[1]][p[2]] # tb[p[1]][p[2]]
    IN tb[p[1]][p[2]]

BothWellFormed == vcmp.done /\ vcmp.ok

\* C10 as stated: a version with 'dev' in a slot is smaller than the same
\* version with any other string or integer in that slot, and a version with
\* 'post' there is greater.
C10_Original ==
    BothWellFormed =>
        /\ OneSlotDiffers(RawTokens(verA), RawTokens(verB), DevTok) => vcmp.lt
        /\ OneSlotDiffers(RawTokens(verA), RawTokens(verB), InfTok) => vcmp.gt

StartsWithStar(t) == t.k = "str" /\ t.s[1] = "*"

\* C10 amended: 'dev' in a slot is smaller than any integer and than any
\* other string that does not begin with '*', and greater than a string
\* that begins with '*'; 'post' in a slot is greater than any other string,
\* and smaller than an integer (an integer can stand in the slot of a string
\* only at the start of a component, where the component of 'post' gets the
\* fillvalue -1 in front).
C10_DevPost ==
    BothWellFormed =>
        /\ OneSlotDiffers(RawTokens(verA), RawTokens(verB), DevTok) =>
              IF StartsWithStar(OtherTok(RawTokens(verA), RawTokens(verB)))
              THEN vcmp.gt /\ ~vcmp.lt
              ELSE vcmp.lt /\ ~vcmp.gt
        /\ OneSlotDiffers(RawTokens(verA), RawTokens(verB), InfTok) =>
              IF OtherTok(RawTokens(verA), RawTokens(verB)).k = "int"
              THEN vcmp.lt /\ ~vcmp.gt
              ELSE vcmp.gt /\ ~vcmp.lt

C10_Witness ==
    /\ BothWellFormed
    /\ OneSlotDiffers(RawTokens(verA), RawTokens(verB), DevTok)
    /\ OtherTok(RawTokens(verA), RawTokens(verB)).k = "str"
    /\ ~StartsWithStar(OtherTok(RawTokens(verA), RawTokens(verB)))
    /\ vcmp.lt

(***************************************************************************)
(* Claims about Resolve                                                    *)
(***************************************************************************)

\* The last call was solve and it returned a list of filenames
SolveReturned == last.op = "solve" /\ last.kind = "list"

\* The last call was solve and solve2 returned a list of filenames
Solve2Returned == SolveReturned /\ last.path \in {"fast", "general"}

\* The full closure of the requirements of the last call on the msd_cache
\* the call left
FullDists == get_dists(last.specs, FALSE, msd_cache)

\* The clauses of the closure d for the requirements and the feature set of
\* the last call
ClausesOf(d) == gen_clauses(d.dists, last.specs, last.features2, msd_cache)

\* C1: when solve returns a list of filenames, on any of its return paths,
\* no two filenames of the list belong to the same package name.
C1_OnePerName ==
    SolveReturned =>
        \A i, j \in 1..Len(last.value) :
            i # j => index[last.value[i]].name # index[last.value[j]].name

\* C2: when solve returns a list of filenames, every dependency MatchSpec
\* (as ms_depends gives it) of every returned artifact matches some
\* artifact of the list, also for pins and for the explicit shortcut.
C2_DependsSatisfied ==
    SolveReturned =>
        \A a \in Range(last.value) :
            \A i \in 1..Len(ms_depends(msd_cache, a)) :
                \E b \in Range(last.value) :
                    MatchSpec_match(MatchSpec(ms_depends(msd_cache, a)[i]), b) = "T"

\* C3: when solve(specs, ...) returns a list of filenames, every
\* requirement of specs matches some filename of the list.
C3_SpecsMatched ==
    SolveReturned =>
        \A i \in 1..Len(last.specs) :
            \E fn \in Range(last.value) :
                MatchSpec_match(MatchSpec(last.specs[i]), fn) = "T"

C5_ObjectiveMinimal ==
    Solve2Returned =>
        \A d \in {FullDists} :
            (d.ok /\ Range(last.value) \subseteq d.dists) =>
                \A g \in {ClausesOf(d)}, eq \in {generate_version_eq(d.dists)} :
                    g.ok => \A sol \in Solutions(g.clauses, d.dists) :
                                evaluate_eq(eq, Range(last.value)) <= evaluate_eq(eq, sol)

\* C6: the outcome of solve (the returned list, or the error) is the one
\* the same call has as the first call on a Resolve instance for the same
\* index, whatever calls were made on the instance before.
C6_SameOutcome ==
    last.op = "solve" =>
        \A first \in {solve(last.specs, last.features, last.max_only, <<>>)} :
            first.kind = last.kind /\ first.value = last.value

\* The candidates of a requirement all fail their dependency expansion
NoneSurvives(spec, max_only) ==
    \A pkg \in Range(get_pkgs(MatchSpec(spec), max_only).pkgs) :
        ~all_deps(pkg, max_only, {}, msd_cache).ok

\* C7: get_dists raises NoPackagesFound only if all the candidates of some
\* requirement fail their dependency expansion, and when it returns a
\* closure, the closure holds no candidate whose expansion raised
\* NoPackagesFound.
C7_FailedCandidateLeftOut ==
    last.op = "get_dists" =>
        /\ last.kind = "NoPackagesFound" =>
              \E i \in 1..Len(last.specs) : NoneSurvives(last.specs[i], last.max_only)
        /\ last.kind = "dists" => last.failed \cap last.value = {}

\* C8: when the clauses of the full closure of the requirements are
\* unsatisfiable, solve ends with the error Unsatisfiable, for both values
\* of minimal_hint; it neither returns a list nor ends the process.
C8_UnsatisfiableError ==
    last.op = "solve" =>
        \A d \in {FullDists} :
            d.ok => \A g \in {ClausesOf(d)} :
                        (g.ok /\ ~sat(g.clauses, d.dists)) => last.kind = "Unsatisfiable"

(***************************************************************************)
(* Claims about the construction of a VersionOrder                         *)
(***************************************************************************)

\* The number of occurrences of the character c in s
CountChar(s, c) == Cardinality({i \in 1..Len(s) : s[i] = c})

\* The part of s behind the epoch separator (all of s without one)
AfterEpoch(s) == split(s, "!")[Len(split(s, "!"))]

\* What C11 lists: s is empty, or has a character outside [*._0-9A-Za-z!],
\* or more than one '!', or an epoch that is not a run of digits, or an
\* empty component
Malformed(s) ==
    \/ s = <<>>
    \/ \E i \in 1..Len(s) : s[i] \notin VersionChars
    \/ CountChar(s, "!") > 1
    \/ (CountChar(s, "!") = 1 /\ ~isdigit(split(s, "!")[1]))
    \/ <<>> \in Range(split(AfterEpoch(s), "."))

\* C11: constructing a VersionOrder raises the malformed-version error for
\* every string that is empty, has a character outside [*._0-9A-Za-z!] at
\* any position, has more than one '!', has a non-integer or empty epoch,
\* or has an empty component; it succeeds for every other string.
C11_MalformedExactly ==
    last.op = "VersionOrder" => (last.kind = "ValueError" <=> Malformed(verA))

(***************************************************************************)
(* Claims about MatchSpec.match                                            *)
(***************************************************************************)

\* name, version and build of the filename name-version-build.tar.bz2
FnParts(fn) == rsplit(SubSeq(fn, 1, Len(fn) - Len(Suffix)), "-", 2)

\* The relation op holds between the well-formed versions na and nb
Related(op, na, nb) ==
    /\ na.ok /\ nb.ok
    /\ CASE op = <<"=", "=">> -> VersionOrder_eq(na.version, nb.version)
         [] op = <<"!", "=">> -> ~VersionOrder_eq(na.version, nb.version)
         [] op = <<"<", "=">> -> \/ VersionOrder_lt(na.version, nb.version)
                                 \/ VersionOrder_eq(na.version, nb.version)
         [] op = <<">", "=">> -> \/ VersionOrder_lt(nb.version, na.version)
                                 \/ VersionOrder_eq(na.version, nb.version)
         [] op = <<"<">> -> VersionOrder_lt(na.version, nb.version)
         [] op = <<">">> -> VersionOrder_lt(nb.version, na.version)

\* The atom begins with '=', '<', '>' or '!'
Relational(atom) == atom # <<>> /\ atom[1] \in RelChars

\* A relational atom holds for the version
RelationHolds(m, version) ==
    m.ok /\ Related(m.op, VersionOrder(version), VersionOrder(m.b))

\* The atom matches the version: its relation holds between the
\* VersionOrder objects, or its glob matches the whole version string
AtomMatches(atom, version) ==
    IF Relational(atom) THEN RelationHolds(version_relation_re(atom), version)
    ELSE GlobMatch(atom, version)

\* Some '|'-separated alternative has all of its ','-separated atoms
\* matching
SomeAlternative(vexpr, version) ==
    \E alt \in Range(split(vexpr, "|")) :
        \A atom \in Range(split(alt, ",")) : AtomMatches(atom, version)

\* What C12 states for the tokens of the spec and the parts of fn
ShouldMatch(tokens, parts) ==
    /\ tokens[1] = parts[1]
    /\ Len(tokens) = 2 => SomeAlternative(tokens[2], parts[2])
    /\ Len(tokens) = 3 => (tokens[2] = parts[2] /\ tokens[3] = parts[3])

\* A relational atom with a recognised operator and a well-formed version
WellFormedRelation(m) == m.ok /\ VersionOrder(m.b).ok

\* Every relational atom of the version expression is well formed
WellFormedAtoms(vexpr) ==
    \A alt \in Range(split(vexpr, "|")) : \A atom \in Range(split(alt, ",")) :
        Relational(atom) => WellFormedRelation(version_relation_re(atom))

\* The relational atoms of the spec, if it has any, are well formed and so
\* is the version of the filename
WellFormedMatch(tokens, parts) ==
    Len(tokens) = 2 =>
        /\ WellFormedAtoms(tokens[2])
        /\ (\E alt \in Range(split(tokens[2], "|")) :
               \E atom \in Range(split(alt, ",")) : Relational(atom))
              => VersionOrder(parts[2]).ok

MatchDone == last.op = "match"

\* C12 as stated: match returns true exactly when the names are equal and
\* (1 token) nothing more, (2 tokens) some alternative has all its atoms
\* matching the version, (3 tokens) version and build strings are equal;
\* in every other case it returns false.
C12_Original ==
    MatchDone =>
        IF ShouldMatch(split_ws(last.specs[1]), FnParts(last.value))
        THEN last.kind = "T" ELSE last.kind = "F"

\* C12 amended: the same, for specs whose relational atoms all have a
\* recognised operator and a well-formed version, matched against a
\* filename whose version is well formed when the spec has a relational
\* atom.
C12_WellFormed ==
    (MatchDone /\ WellFormedMatch(split_ws(last.specs[1]), FnParts(last.value))) =>
        IF ShouldMatch(split_ws(last.specs[1]), FnParts(last.value))
        THEN last.kind = "T" ELSE last.kind = "F"

\* match returned true for a spec of two tokens whose first alternative
\* does not match and whose matching alternative has two atoms, one of
\* them relational
C12_Witness ==
    /\ MatchDone /\ last.kind = "T"
    /\ WellFormedMatch(split_ws(last.specs[1]), FnParts(last.value))
    /\ Len(split_ws(last.specs[1])) = 2
    /\ \E alts \in {split(split_ws(last.specs[1])[2], "|")} :
          /\ Len(alts) = 2
          /\ ~AtomMatches(alts[1], FnParts(last.value)[2])
          /\ Len(split(alts[2], ",")) = 2
          /\ \E atom \in Range(split(alts[2], ",")) : Relational(atom)

(***************************************************************************)
(* Claims about Package and get_pkgs                                       *)
(***************************************************************************)

\* (parsed version, build_number) of fn1 is smaller than that of fn2
VersionBuildLess(fn1, fn2) ==
    \/ VersionOrder_lt(norm_version(fn1), norm_version(fn2))
    \/ /\ VersionOrder_eq(norm_version(fn1), norm_version(fn2))
       /\ index[fn1].build_number < index[fn2].build_number

\* The artifacts of the index that the spec matches
Matching(spec) == {fn \in DOMAIN index : MatchSpec_match(MatchSpec(spec), fn) = "T"}

\* The artifacts of S with the greatest (parsed version, build_number)
Greatest(S) == {fn \in S : \A other \in S : ~VersionBuildLess(fn, other)}

GetPkgsMax == last.op = "get_pkgs" /\ last.max_only /\ last.kind = "pkgs"

\* C13: get_pkgs(ms, max_only=True) returns exactly the artifacts matching
\* ms whose (parsed version, build_number) is the greatest among the
\* artifacts matching ms, whatever their build strings are.
C13_MaxOnly ==
    GetPkgsMax => Range(last.value) = Greatest(Matching(last.specs[1]))

\* get_pkgs(ms, max_only=True) returned two artifacts that differ in their
\* build strings only, and left out an artifact of a smaller version with a
\* greater build number and one of the same version with a smaller build
\* number
C13_Witness ==
    /\ GetPkgsMax
    /\ \E fn1, fn2 \in Range(last.value) : index[fn1].build # index[fn2].build
    /\ \E fn \in Matching(last.specs[1]) \ Range(last.value) :
          \E kept \in Range(last.value) :
              /\ VersionOrder_lt(norm_version(fn), norm_version(kept))
              /\ index[fn].build_number > index[kept].build_number
    /\ \E fn \in Matching(last.specs[1]) \ Range(last.value) :
          \E kept \in Range(last.value) :
              /\ VersionOrder_eq(norm_version(fn), norm_version(kept))
              /\ index[fn].build_number < index[kept].build_number

\* The triple (parsed version, build_number, build string) of fn1 is
\* lexicographically smaller than that of fn2
TripleLess(fn1, fn2) ==
    \/ VersionBuildLess(fn1, fn2)
    \/ /\ VersionOrder_eq(norm_version(fn1), norm_version(fn2))
       /\ index[fn1].build_number = index[fn2].build_number
       /\ StrLess(index[fn1].build, index[fn2].build)

\* C14: for two artifacts a and b of one name, a < b holds exactly when the
\* triple (parsed version, build_number, build string) of a is
\* lexicographically smaller than that of b, and exactly one of a < b,
\* a == b and b < a holds; comparing artifacts of different names with <
\* fails.
C14_TripleOrder ==
    last.op = "Package.__lt__" =>
        IF index[last.specs[1]].name # index[last.specs[2]].name
        THEN last.kind = "TypeError"
        ELSE /\ last.kind = "bool"
             /\ last.value.lt <=> TripleLess(last.specs[1], last.specs[2])
             /\ Count(last.value.lt) + Count(last.value.eq) + Count(last.value.gt) = 1

(***************************************************************************)
(* Claims about msd_cache and the dependency closure                       *)
(***************************************************************************)

\* C15: across any sequence of calls on one Resolve instance, once
\* msd_cache holds an entry for a filename, the dependency list stored for
\* it is never replaced by a different list and never removed.
C15_CacheMonotonic ==
    [][\A fn \in DOMAIN msd_cache :
          fn \in DOMAIN msd_cache' /\ msd_cache'[fn] = msd_cache[fn]]_vars

\* C16: when get_dists(specs, max_only) returns a closure D, every
\* dependency spec of every artifact of D matches some artifact of D, so
\* that the dependency clause of gen_clauses has a positive literal and the
\* assertion len(clause) > 1 holds.
C16_ClauseHasPositiveLiteral ==
    (last.op = "get_dists" /\ last.kind = "dists") =>
        \A fn1 \in last.value : \A spec \in Range(ms_depends(msd_cache, fn1)) :
            MatchesIn(MatchSpec(spec), last.value) # {}

\* The artifacts of D that a dependency of an artifact of R matches
DependedOn(D, R) ==
    {b \in D : \E a \in R : \E spec \in Range(ms_depends(msd_cache, a)) :
                  MatchSpec_match(MatchSpec(spec), b) = "T"}

\* The artifacts of D reachable from R through the dependencies of
\* artifacts of D
RECURSIVE Reachable(_, _)
Reachable(D, R) ==
    IF DependedOn(D, R) \subseteq R THEN R
    ELSE Reachable(D, R \cup DependedOn(D, R))

\* The artifacts of D that some requirement of specs matches
Candidates(D, specs) ==
    {fn \in D : \E spec \in Range(specs) : MatchSpec_match(MatchSpec(spec), fn) = "T"}

\* C17: a candidate whose expansion fails is rolled back together with
\* every artifact added only during its expansion, so the closure that
\* get_dists returns holds only artifacts reachable through kept
\* candidates.
C17_OnlyKeptReachable ==
    (last.op = "get_dists" /\ last.kind = "dists") =>
        last.value \subseteq Reachable(last.value, Candidates(last.value, last.specs))

\* The get_dists call returned or raised NoPackagesFound
GetDistsEnded == run.pc \in {"returned", "raised"}

\* C18: get_dists(specs) eventually terminates, returning a closure or
\* raising NoPackagesFound, also on an index with dependency cycles and
\* with candidates that are rolled back and added again, and add_dependents
\* is never called for an artifact that has a call on the recursion stack.
C18_TerminatesWithoutReentry == <>GetDistsEnded /\ [](run.reentered = {})

====
